---------------------------- MODULE Spec2Model ----------------------------
(***************************************************************************)
(* Media Analysis CLI (src/media-analysis-cli.py): URL validation, the     *)
(* Article fetch/extraction with its interactive retry, the four Analyzer  *)
(* heuristics and the CLI.run pipeline.                                    *)
(*                                                                         *)
(* Strings are sequences of one-character strings, so that substring       *)
(* counting, whole-word matching, lower-casing, stripping and joining are  *)
(* computed character by character as the Python code computes them.       *)
(* URLs are sequences of lexical tokens (scheme word, ":", "//", host,     *)
(* "/", path segment, "#") that urlparse/urljoin split and reassemble.     *)
(* Scores that are floats in the code are exact rationals here, kept as    *)
(* integers scaled by a named denominator.                                 *)
(*                                                                         *)
(* Line 301 of the source carries a stray "D" after the last analyzer      *)
(* call; the model follows the statement without it.                       *)
(***************************************************************************)
EXTENDS Integers, Sequences, FiniteSets, TLC

(***************************************************************************)
(* Characters and Python string primitives                                 *)
(***************************************************************************)
LowerLetters ==
  <<"a","b","c","d","e","f","g","h","i","j","k","l","m",
    "n","o","p","q","r","s","t","u","v","w","x","y","z">>

UpperLetters ==
  <<"A","B","C","D","E","F","G","H","I","J","K","L","M",
    "N","O","P","Q","R","S","T","U","V","W","X","Y","Z">>

Digits == {"0","1","2","3","4","5","6","7","8","9"}

Range(s) == {s[i] : i \in DOMAIN s}

UpperSet == Range(UpperLetters)

LowerOfUpper ==
  [c \in UpperSet |-> LowerLetters[CHOOSE i \in 1..26 : UpperLetters[i] = c]]

\* str.lower() on one character (ASCII): upper-case letters map to lower case.
ToLower(c) == IF c \in UpperSet THEN LowerOfUpper[c] ELSE c

\* str.lower()
lower(s) == [i \in 1..Len(s) |-> ToLower(s[i])]

\* The regular-expression class \w (ASCII part): letters, digits, underscore.
WordChars == Range(LowerLetters) \cup Range(UpperLetters) \cup Digits \cup {"_"}

IsWordChar(c) == c \in WordChars

\* Python's string whitespace (the part of it the model's strings use).
IsSpace(c) == c \in {" ", "\n", "\t"}

\* s[i : i+len(sub)] == sub
StartsAt(s, sub, i) ==
  /\ i >= 1
  /\ i + Len(sub) - 1 <= Len(s)
  /\ \A k \in 1..Len(sub) : s[i + k - 1] = sub[k]

\* the same, letters compared without regard to case (re.IGNORECASE)
StartsAtIgnoreCase(s, sub, i) ==
  /\ i >= 1
  /\ i + Len(sub) - 1 <= Len(s)
  /\ \A k \in 1..Len(sub) : ToLower(s[i + k - 1]) = ToLower(sub[k])

\* str.count(sub): occurrences found scanning left to right, the scan
\* resuming after the end of each occurrence found (non-overlapping).
RECURSIVE CountFrom(_, _, _)
CountFrom(s, sub, i) ==
  IF i + Len(sub) - 1 > Len(s) THEN 0
  ELSE IF StartsAt(s, sub, i) THEN 1 + CountFrom(s, sub, i + Len(sub))
  ELSE CountFrom(s, sub, i + 1)

StrCount(s, sub) == CountFrom(s, sub, 1)

\* str.strip(): leading and trailing whitespace removed.
RECURSIVE LStrip(_)
LStrip(s) == IF s # <<>> /\ IsSpace(Head(s)) THEN LStrip(Tail(s)) ELSE s

RECURSIVE RStrip(_)
RStrip(s) ==
  IF s # <<>> /\ IsSpace(s[Len(s)]) THEN RStrip(SubSeq(s, 1, Len(s) - 1)) ELSE s

strip(s) == RStrip(LStrip(s))

\* sep.join(parts)
RECURSIVE join(_, _)
join(sep, parts) ==
  IF parts = <<>> THEN <<>>
  ELSE IF Len(parts) = 1 THEN parts[1]
  ELSE parts[1] \o sep \o join(sep, Tail(parts))

\* The regular-expression assertion \b at the gap after position p
\* (p = 0 is the start of the text): exactly one side is a word character.
IsWordAt(s, i) == i >= 1 /\ i <= Len(s) /\ IsWordChar(s[i])

WordBoundary(s, p) == IsWordAt(s, p) # IsWordAt(s, p + 1)

\* the search with the trailing \b left out of the pattern
re_search_word_NoTrailingBoundary(word, text) ==
  \E i \in 1..(Len(text) - Len(word) + 1) :
    /\ WordBoundary(text, i - 1)
    /\ StartsAtIgnoreCase(text, word, i)

\* re.search(r'\b' + re.escape(word) + r'\b', text, re.IGNORECASE) is not None
re_search_word(word, text) ==
  \E i \in 1..(Len(text) - Len(word) + 1) :
    /\ WordBoundary(text, i - 1)
    /\ StartsAtIgnoreCase(text, word, i)
    /\ WordBoundary(text, i + Len(word) - 1)

(***************************************************************************)
(* Configuration tables of the Analyzer                                    *)
(***************************************************************************)
biased_words ==
  <<
    <<"a","l","a","r","m","i","n","g">>, <<"a","m","a","z","i","n","g">>,
    <<"a","p","p","a","l","l","i","n","g">>, <<"a","w","f","u","l">>, <<"b","a","d">>,
    <<"b","e","a","u","t","i","f","u","l">>, <<"b","e","s","t">>, <<"b","l","a","t","a","n","t">>,
    <<"b","r","e","a","k","t","h","r","o","u","g","h">>,
    <<"c","a","t","a","s","t","r","o","p","h","e">>, <<"c","e","r","t","a","i","n","l","y">>,
    <<"c","h","a","o","t","i","c">>, <<"c","l","e","a","r","l","y">>,
    <<"c","o","l","l","u","s","i","o","n">>, <<"c","o","n","s","p","i","r","a","c","y">>,
    <<"c","o","r","r","u","p","t">>, <<"c","o","v","e","r","t">>, <<"c","r","i","s","i","s">>,
    <<"d","a","n","g","e","r">>, <<"d","e","a","d","l","y">>, <<"d","e","c","e","n","t">>,
    <<"d","e","f","i","n","i","t","e","l","y">>, <<"d","i","s","a","s","t","e","r">>,
    <<"d","i","s","g","r","a","c","e","f","u","l">>, <<"d","i","s","g","u","s","t","i","n","g">>,
    <<"d","r","a","s","t","i","c">>, <<"d","u","t","y">>, <<"e","f","f","e","c","t","i","v","e">>,
    <<"e","x","c","e","l","l","e","n","t">>, <<"e","x","c","e","p","t","i","o","n","a","l">>,
    <<"e","x","t","r","e","m","e">>, <<"f","a","i","l","u","r","e">>, <<"f","a","i","r">>,
    <<"f","a","n","t","a","s","t","i","c">>,
    <<"f","e","a","r","-","m","o","n","g","e","r","i","n","g">>, <<"f","i","n","a","l","l","y">>,
    <<"f","l","a","w","l","e","s","s">>, <<"f","o","o","l","i","s","h">>,
    <<"f","r","e","e","d","o","m">>, <<"f","r","e","n","z","y">>,
    <<"f","r","i","g","h","t","e","n","i","n","g">>, <<"g","o","o","d">>, <<"g","r","e","a","t">>,
    <<"h","a","t","e">>, <<"h","e","a","l","t","h","y">>, <<"h","e","r","o","i","c">>,
    <<"h","i","s","t","o","r","i","c">>, <<"h","o","n","e","s","t">>,
    <<"h","o","r","r","i","b","l","e">>, <<"h","u","g","e">>,
    <<"i","m","m","e","d","i","a","t","e","l","y">>, <<"i","m","p","o","r","t","a","n","t">>,
    <<"i","m","p","o","s","s","i","b","l","e">>, <<"i","n","c","o","m","p","e","t","e","n","t">>,
    <<"i","n","c","r","e","d","i","b","l","e">>, <<"i","n","e","v","i","t","a","b","l","e">>,
    <<"i","n","f","l","a","m","m","a","t","o","r","y">>, <<"i","n","j","u","s","t","i","c","e">>,
    <<"i","n","s","p","i","r","a","t","i","o","n","a","l">>,
    <<"i","r","r","e","s","p","o","n","s","i","b","l","e">>, <<"j","u","s","t","i","c","e">>,
    <<"l","a","n","d","m","a","r","k">>, <<"l","i","k","e","l","y">>,
    <<"l","o","o","m","i","n","g">>, <<"m","a","s","s","i","v","e">>,
    <<"m","a","s","t","e","r","p","i","e","c","e">>, <<"m","e","a","n","i","n","g","f","u","l">>,
    <<"m","i","r","a","c","l","e">>, <<"m","i","s","l","e","a","d","i","n","g">>,
    <<"m","o","n","u","m","e","n","t","a","l">>, <<"m","u","s","t">>, <<"m","y","t","h">>,
    <<"o","b","v","i","o","u","s","l","y">>, <<"o","f"," ","c","o","u","r","s","e">>,
    <<"o","u","t","r","a","g","e","o","u","s">>, <<"p","a","n","i","c">>,
    <<"p","a","t","r","i","o","t","i","c">>, <<"p","e","r","f","e","c","t">>,
    <<"p","i","v","o","t","a","l">>, <<"p","o","o","r">>,
    <<"p","r","o","p","a","g","a","n","d","a">>, <<"r","a","d","i","c","a","l">>,
    <<"r","e","a","s","o","n","a","b","l","e">>,
    <<"r","e","v","o","l","u","t","i","o","n","a","r","y">>, <<"r","i","g","g","e","d">>,
    <<"s","c","a","n","d","a","l">>, <<"s","c","a","r","e">>, <<"s","e","c","r","e","t">>,
    <<"s","h","a","m","e","f","u","l">>, <<"s","h","o","c","k","i","n","g">>,
    <<"s","i","g","n","i","f","i","c","a","n","t">>, <<"s","m","a","r","t">>,
    <<"s","o","-","c","a","l","l","e","d">>, <<"s","p","e","c","i","a","l">>,
    <<"s","t","u","p","i","d">>, <<"s","u","c","c","e","s","s","f","u","l">>,
    <<"s","u","d","d","e","n","l","y">>, <<"s","u","p","e","r","b">>,
    <<"t","e","r","r","i","b","l","e">>, <<"t","e","r","r","i","f","y","i","n","g">>,
    <<"t","h","r","e","a","t">>, <<"t","i","m","e","l","y">>, <<"t","i","n","y">>,
    <<"t","r","a","g","i","c">>, <<"t","r","e","m","e","n","d","o","u","s">>, <<"t","r","u","e">>,
    <<"t","r","u","s","t">>, <<"t","r","u","t","h">>,
    <<"u","n","a","c","c","e","p","t","a","b","l","e">>,
    <<"u","n","b","e","l","i","e","v","a","b","l","e">>,
    <<"u","n","d","o","u","b","t","e","d","l","y">>, <<"u","n","f","a","i","r">>,
    <<"u","n","f","o","r","t","u","n","a","t","e">>,
    <<"u","n","p","r","e","c","e","d","e","n","t","e","d">>, <<"u","r","g","e","n","t">>,
    <<"v","i","c","t","o","r","y">>, <<"v","i","o","l","e","n","t">>, <<"v","i","t","a","l">>,
    <<"w","o","n","d","e","r","f","u","l">>, <<"w","o","r","s","t">>, <<"w","r","o","n","g">>
  >>

TopicNames ==
  <<"Technology", "Politics", "Sports", "Business", "Health", "Entertainment", "Education">>

topics ==
  <<
    \* Technology
    <<
      <<"a","i">>, <<"s","o","f","t","w","a","r","e">>, <<"h","a","r","d","w","a","r","e">>,
      <<"a","p","p","l","e">>, <<"g","o","o","g","l","e">>, <<"d","a","t","a">>,
      <<"c","l","o","u","d">>, <<"s","t","a","r","t","u","p">>,
      <<"a","l","g","o","r","i","t","h","m">>,
      <<"c","y","b","e","r","s","e","c","u","r","i","t","y">>,
      <<"i","n","n","o","v","a","t","i","o","n">>, <<"r","o","b","o","t","i","c","s">>,
      <<"c","r","y","p","t","o">>, <<"s","a","m","s","u","n","g">>,
      <<"p","r","o","c","e","s","s","o","r">>, <<"g","r","a","p","h","i","c","s">>,
      <<"p","e","r","f","o","r","m","a","n","c","e">>
    >>,
    \* Politics
    <<
      <<"g","o","v","e","r","n","m","e","n","t">>, <<"e","l","e","c","t","i","o","n">>,
      <<"s","e","n","a","t","e">>, <<"l","a","w">>, <<"p","o","l","i","c","y">>,
      <<"p","r","e","s","i","d","e","n","t">>, <<"c","o","n","g","r","e","s","s">>,
      <<"p","o","l","i","t","i","c","a","l">>, <<"l","e","g","i","s","l","a","t","i","o","n">>,
      <<"d","e","m","o","c","r","a","c","y">>, <<"b","a","l","l","o","t">>, <<"v","o","t","e">>
    >>,
    \* Sports
    <<
      <<"g","a","m","e">>, <<"t","e","a","m">>, <<"p","l","a","y","e","r">>,
      <<"s","e","a","s","o","n">>, <<"s","c","o","r","e">>, <<"n","b","a">>,
      <<"f","o","o","t","b","a","l","l">>, <<"o","l","y","m","p","i","c","s">>,
      <<"c","h","a","m","p","i","o","n">>, <<"a","t","h","l","e","t","e">>,
      <<"s","t","a","d","i","u","m">>, <<"p","l","a","y","o","f","f","s">>, <<"g","o","a","l">>,
      <<"s","o","c","c","e","r">>
    >>,
    \* Business
    <<
      <<"c","o","m","p","a","n","y">>, <<"m","a","r","k","e","t">>, <<"s","t","o","c","k">>,
      <<"e","c","o","n","o","m","y">>, <<"c","e","o">>, <<"f","i","n","a","n","c","e">>,
      <<"i","n","v","e","s","t","m","e","n","t">>, <<"r","e","v","e","n","u","e">>,
      <<"q","u","a","r","t","e","r","l","y">>, <<"w","a","l","l"," ","s","t","r","e","e","t">>,
      <<"i","p","o">>, <<"e","a","r","n","i","n","g","s">>
    >>,
    \* Health
    <<
      <<"h","e","a","l","t","h">>, <<"s","l","e","e","p">>, <<"m","e","d","i","c","a","l">>,
      <<"d","o","c","t","o","r">>, <<"h","o","s","p","i","t","a","l">>, <<"f","d","a">>,
      <<"v","i","r","u","s">>, <<"p","a","n","d","e","m","i","c">>, <<"v","a","c","c","i","n","e">>,
      <<"r","e","s","e","a","r","c","h">>, <<"d","i","s","e","a","s","e">>,
      <<"w","e","l","l","n","e","s","s">>, <<"n","u","t","r","i","t","i","o","n">>
    >>,
    \* Entertainment
    <<
      <<"m","o","v","i","e">>, <<"m","u","s","i","c">>, <<"s","i","n","g","e","r">>,
      <<"b","o","x"," ","o","f","f","i","c","e">>, <<"c","e","l","e","b","r","i","t","y">>,
      <<"f","i","l","m">>, <<"h","o","l","l","y","w","o","o","d">>,
      <<"n","o","l","l","y","w","o","o","d">>, <<"b","o","l","l","y","w","o","o","d">>,
      <<"a","w","a","r","d">>, <<"s","e","r","i","e","s">>, <<"n","e","t","f","l","i","x">>,
      <<"a","c","t","o","r">>, <<"a","c","t","r","e","s","s">>, <<"d","i","r","e","c","t","o","r">>,
      <<"a","l","b","u","m">>, <<"c","o","n","c","e","r","t">>
    >>,
    \* Education
    <<
      <<"c","o","u","r","s","e">>, <<"s","t","u","d","e","n","t">>, <<"t","e","s","t">>,
      <<"e","x","a","m">>, <<"s","c","h","o","o","l">>, <<"u","n","i","v","e","r","s","i","t","y">>,
      <<"s","c","h","o","l","a","r","s","h","i","p">>, <<"h","o","s","t","e","l">>,
      <<"b","o","o","t","c","a","m","p">>, <<"c","a","m","p">>
    >>
  >>

(***************************************************************************)
(* Analyzer.categorize_topic                                               *)
(***************************************************************************)
\* for keyword in keywords: scores[topic] += lower_text.count(keyword)
RECURSIVE KeywordTotal(_, _)
KeywordTotal(lower_text, keywords) ==
  IF keywords = <<>> THEN 0
  ELSE StrCount(lower_text, Head(keywords)) + KeywordTotal(lower_text, Tail(keywords))

TopicScores(text) ==
  LET lower_text == lower(text)
  IN  [t \in 1..Len(topics) |-> KeywordTotal(lower_text, topics[t])]

\* a maximum search in which a later equal score replaces the running best
RECURSIVE MaxKey_LastWins(_, _, _)
MaxKey_LastWins(scores, i, best) ==
  IF i > Len(scores) THEN best
  ELSE MaxKey_LastWins(scores, i + 1, IF scores[i] >= scores[best] THEN i ELSE best)

\* max(scores, key=scores.get): the dictionary is scanned in insertion
\* order and the running best is replaced only by a strictly larger score.
RECURSIVE MaxKey(_, _, _)
MaxKey(scores, i, best) ==
  IF i > Len(scores) THEN best
  ELSE MaxKey(scores, i + 1, IF scores[i] > scores[best] THEN i ELSE best)

categorize_topic(text) ==
  LET scores == TopicScores(text)
  IN  IF \A t \in 1..Len(scores) : scores[t] = 0
        THEN "Uncategorized"
        ELSE TopicNames[MaxKey(scores, 2, 1)]

(***************************************************************************)
(* Analyzer.detect_bias                                                    *)
(***************************************************************************)
BiasHighAbove == 15
BiasModerateAbove == 7

\* found_words: the lexicon entries, in lexicon order, that re.search finds.
FoundWords(text) ==
  SelectSeq(biased_words, LAMBDA word : re_search_word(word, text))

BiasAssessment(score) ==
  IF score > BiasHighAbove THEN "High potential for bias"
  ELSE IF score > BiasModerateAbove THEN "Moderate potential for bias"
  ELSE IF score > 0 THEN "Low potential for bias"
  ELSE "Appears to be objective"

\* return assessment, score, list(set(found_words))
detect_bias(text) ==
  LET found_words == FoundWords(text)
      score == Len(found_words)
  IN  [assessment |-> BiasAssessment(score),
       score |-> score,
       words |-> Range(found_words)]

(***************************************************************************)
(* urllib.parse as the program uses it (urlparse, urljoin)                 *)
(***************************************************************************)
\* str.find(c) as a 1-based index, 0 when absent.
RECURSIVE FindFrom(_, _, _)
FindFrom(s, cs, i) ==
  IF i > Len(s) THEN 0
  ELSE IF s[i] \in cs THEN i
  ELSE FindFrom(s, cs, i + 1)

Find(s, c) == FindFrom(s, {c}, 1)

Slice(s, a, b) == IF a > b THEN <<>> ELSE SubSeq(s, a, b)

\* str.split(c)
RECURSIVE Split(_, _)
Split(s, c) ==
  LET i == Find(s, c)
  IN  IF i = 0 THEN <<s>>
      ELSE <<Slice(s, 1, i - 1)>> \o Split(Slice(s, i + 1, Len(s)), c)

Letters == Range(LowerLetters) \cup Range(UpperLetters)

IsAlpha(c) == c \in Letters

\* urllib.parse.scheme_chars
IsSchemeChar(c) == IsAlpha(c) \/ c \in Digits \/ c \in {"+", "-", "."}

HTTP == <<"h","t","t","p">>
HTTPS == <<"h","t","t","p","s">>
FTP == <<"f","t","p">>

\* urllib.parse.uses_relative and uses_netloc, restricted to the schemes of
\* the model's URLs; both hold the empty scheme.
uses_relative == {<<>>, HTTP, HTTPS, FTP}
uses_netloc == {<<>>, HTTP, HTTPS, FTP}

\* urlsplit, first step: a leading run of scheme characters that starts
\* with a letter and ends at the first ":" is the scheme, lower-cased.
HasScheme(url, i) ==
  /\ i > 1
  /\ IsAlpha(url[1])
  /\ \A k \in 1..(i - 1) : IsSchemeChar(url[k])

SplitScheme(url, default, i) ==
  IF HasScheme(url, i)
    THEN [scheme |-> lower(Slice(url, 1, i - 1)), rest |-> Slice(url, i + 1, Len(url))]
    ELSE [scheme |-> default, rest |-> url]

\* urlsplit, second step (_splitnetloc): after a leading "//" the netloc
\* runs to the first of "/", "?", "#", or to the end.
SplitNetlocAt(r, d) ==
  IF Len(r) >= 2 /\ r[1] = "/" /\ r[2] = "/"
    THEN IF d = 0 THEN [netloc |-> Slice(r, 3, Len(r)), rest |-> <<>>]
         ELSE [netloc |-> Slice(r, 3, d - 1), rest |-> Slice(r, d, Len(r))]
    ELSE [netloc |-> <<>>, rest |-> r]

SplitNetloc(r) == SplitNetlocAt(r, FindFrom(r, {"/", "?", "#"}, 3))

\* str.split(c, 1) into the part before the first c and the part after it
CutAt(r, i) ==
  IF i = 0 THEN [before |-> r, after |-> <<>>]
  ELSE [before |-> Slice(r, 1, i - 1), after |-> Slice(r, i + 1, Len(r))]

Cut(r, c) == CutAt(r, Find(r, c))

UrlParts(scheme, netloc, f, q) ==
  [scheme |-> scheme, netloc |-> netloc, path |-> q.before,
   query |-> q.after, fragment |-> f.after]

AfterFragment(scheme, netloc, f) == UrlParts(scheme, netloc, f, Cut(f.before, "?"))

AfterNetloc(scheme, n) == AfterFragment(scheme, n.netloc, Cut(n.rest, "#"))

AfterScheme(s) == AfterNetloc(s.scheme, SplitNetloc(s.rest))

\* urlparse(url, scheme=default): scheme, netloc, path, query, fragment.
\* The model's URLs hold no ";" (params stay empty) and none of the
\* characters urlsplit strips or removes before splitting.
urlparse_default(url, default) == AfterScheme(SplitScheme(url, default, Find(url, ":")))

urlparse(url) == urlparse_default(url, <<>>)

\* urlunparse
WithNetloc(p) ==
  IF p.netloc # <<>>
       \/ (p.scheme # <<>> /\ p.scheme \in uses_netloc
           /\ Slice(p.path, 1, 2) # <<"/", "/">>)
    THEN <<"/", "/">> \o p.netloc
         \o (IF p.path # <<>> /\ p.path[1] # "/" THEN <<"/">> ELSE <<>>)
         \o p.path
    ELSE p.path

WithScheme(p, u) == IF p.scheme # <<>> THEN p.scheme \o <<":">> \o u ELSE u

WithQuery(p, u) == IF p.query # <<>> THEN u \o <<"?">> \o p.query ELSE u

WithFragment(p, u) == IF p.fragment # <<>> THEN u \o <<"#">> \o p.fragment ELSE u

urlunparse(p) == WithFragment(p, WithQuery(p, WithScheme(p, WithNetloc(p))))

\* segments[1:-1] = filter(None, segments[1:-1])
DropEmptyInside(segs) ==
  IF Len(segs) <= 2 THEN segs
  ELSE <<segs[1]>>
       \o SelectSeq(SubSeq(segs, 2, Len(segs) - 1), LAMBDA g : g # <<>>)
       \o <<segs[Len(segs)]>>

DOT == <<".">>
DOTDOT == <<".", ".">>

\* the loop of urljoin that resolves "." and ".." segments
RECURSIVE ResolveDots(_, _)
ResolveDots(segs, resolved) ==
  IF segs = <<>> THEN resolved
  ELSE IF Head(segs) = DOTDOT
    THEN ResolveDots(Tail(segs),
                     IF resolved = <<>> THEN resolved
                     ELSE SubSeq(resolved, 1, Len(resolved) - 1))
  ELSE IF Head(segs) = DOT THEN ResolveDots(Tail(segs), resolved)
  ELSE ResolveDots(Tail(segs), Append(resolved, Head(segs)))

\* base_parts = bpath.split('/'), its last part dropped unless empty
BaseParts(parts) ==
  IF parts[Len(parts)] # <<>> THEN SubSeq(parts, 1, Len(parts) - 1) ELSE parts

\* the segments urljoin resolves: those of an absolute path, or the base's
\* directory followed by those of a relative path
Segments(bpath, path) ==
  IF path[1] = "/" THEN Split(path, "/")
  ELSE DropEmptyInside(BaseParts(Split(bpath, "/")) \o Split(path, "/"))

ResolvedPath(segments) ==
  IF segments[Len(segments)] \in {DOT, DOTDOT}
    THEN Append(ResolveDots(segments, <<>>), <<>>)
    ELSE ResolveDots(segments, <<>>)

JoinedPath(joined) == IF joined = <<>> THEN <<"/">> ELSE joined

MergedPath(bpath, path) == JoinedPath(join(<<"/">>, ResolvedPath(Segments(bpath, path))))

\* urljoin once both URLs are parsed and the joined URL keeps b's netloc
JoinRelative(b, u, netloc) ==
  IF u.path = <<>>
    THEN urlunparse([scheme |-> u.scheme, netloc |-> netloc, path |-> b.path,
                     query |-> IF u.query = <<>> THEN b.query ELSE u.query,
                     fragment |-> u.fragment])
    ELSE urlunparse([scheme |-> u.scheme, netloc |-> netloc,
                     path |-> MergedPath(b.path, u.path),
                     query |-> u.query, fragment |-> u.fragment])

JoinParsed(b, u, url) ==
  IF u.scheme # b.scheme \/ u.scheme \notin uses_relative THEN url
  ELSE IF u.scheme \in uses_netloc /\ u.netloc # <<>> THEN urlunparse(u)
  ELSE JoinRelative(b, u, IF u.scheme \in uses_netloc THEN b.netloc ELSE u.netloc)

JoinBase(b, url) == JoinParsed(b, urlparse_default(url, b.scheme), url)

\* urljoin(base, url)
urljoin(base, url) ==
  IF base = <<>> THEN url
  ELSE IF url = <<>> THEN base
  ELSE JoinBase(urlparse(base), url)

\* is_valid_url
IsHttpWithHost(parsed) == parsed.scheme \in {HTTP, HTTPS} /\ parsed.netloc # <<>>

\* the validation with the host test left out
is_valid_url_SchemeOnly(url) == urlparse(url).scheme \in {HTTP, HTTPS}

is_valid_url(url) == IsHttpWithHost(urlparse(url))

(***************************************************************************)
(* Analyzer.analyze_sentiment and Analyzer.analyze_source_credibility      *)
(*                                                                         *)
(* TextBlob is the external sentiment primitive.  A blob carries what the  *)
(* primitive yields for its text: polarity and subjectivity as integers    *)
(* over the denominator SentDen, and the number of sentences.  TextBlob    *)
(* computes each lazily and caches it in the blob (cached_property).       *)
(***************************************************************************)
SentDen == 10
MaxSentences == 20
MaxLinks == 100

\* polarity > 0.1 / polarity < -0.1, on polarity = p / SentDen
analyze_sentiment(blob) ==
  [label |-> IF 10 * blob.polarity > SentDen THEN "Positive"
             ELSE IF 10 * blob.polarity < -SentDen THEN "Negative"
             ELSE "Neutral",
   polarity |-> blob.polarity,
   subjectivity |-> blob.subjectivity]

ShortArticleBelow == 8
ShortArticlePenalty == 25
PointsPerLink == 3
MaxLinkBonus == 30
HighlyCredibleAbove == 80
CredibleAbove == 60
ModerateAbove == 40

Min(a, b) == IF a < b THEN a ELSE b
Max(a, b) == IF a > b THEN a ELSE b

\* the score with line 206 (the clamp) left out
CredibilityScore_Unclamped(subjectivity, num_sentences, link_count) ==
  (SentDen - subjectivity) * 100
    - (IF num_sentences < ShortArticleBelow THEN ShortArticlePenalty * SentDen ELSE 0)
    + Min(link_count * PointsPerLink, MaxLinkBonus) * SentDen

\* credibility_score, as the integer credibility_score * SentDen
CredibilityScore(subjectivity, num_sentences, link_count) ==
  LET s0 == (SentDen - subjectivity) * 100
      s1 == IF num_sentences < ShortArticleBelow
              THEN s0 - ShortArticlePenalty * SentDen ELSE s0
      link_bonus == Min(link_count * PointsPerLink, MaxLinkBonus)
      s2 == s1 + link_bonus * SentDen
  IN  Max(0, Min(100 * SentDen, s2))

CredibilityAssessment(score) ==
  IF score > HighlyCredibleAbove * SentDen THEN "Appears highly credible"
  ELSE IF score > CredibleAbove * SentDen THEN "Appears credible"
  ELSE IF score > ModerateAbove * SentDen THEN "Moderate credibility"
  ELSE "Low credibility (review with caution)"

\* f"{credibility_score:.2f}/100": the score in hundredths, rounded to the
\* nearest hundredth, an exact tie going to the even one.
Format2(score) ==
  LET n == score * 100
      q == n \div SentDen
      r == n % SentDen
  IN  IF 2 * r > SentDen \/ (2 * r = SentDen /\ q % 2 = 1) THEN q + 1 ELSE q

analyze_source_credibility(blob, link_count) ==
  LET subjectivity == analyze_sentiment(blob).subjectivity
      num_sentences == blob.sentences
      credibility_score == CredibilityScore(subjectivity, num_sentences, link_count)
  IN  [assessment |-> CredibilityAssessment(credibility_score),
       score |-> credibility_score,
       formatted |-> Format2(credibility_score)]

(***************************************************************************)
(* Article.fetch_content: extraction from a fetched page                   *)
(*                                                                         *)
(* A page is what BeautifulSoup parsed.  An optional value is <<>> when  *)
(* absent (Python's None) and <<v>> when present.  title is                *)
(* soup.title.string (absent when there is no title tag or it holds no     *)
(* single string); article and main are the paragraphs inside the first    *)
(* <article> / <main> element (absent when the page has no such element);  *)
(* all is every paragraph of the document.  A paragraph has its text and   *)
(* its anchors, each the optional value of the anchor's href attribute.    *)
(***************************************************************************)
FailedToFetch == <<"F","a","i","l","e","d"," ","t","o"," ","F","e","t","c","h">>
NoTitleFound == <<"N","o"," ","t","i","t","l","e"," ","f","o","u","n","d">>
ContentPlaceholder ==
  <<"C","o","n","t","e","n","t"," ","c","o","u","l","d"," ","n","o","t"," ",
    "b","e"," ","e","x","t","r","a","c","t","e","d",".">>

\* if soup.title and soup.title.string: ... strip() else "No title found"
ExtractTitle(page) ==
  IF page.title # <<>> /\ page.title[1] # <<>>
    THEN strip(page.title[1]) ELSE NoTitleFound

\* article_body = soup.find('article') or soup.find('main') or soup
\* paragraphs = article_body.find_all('p')
Paragraphs(page) ==
  IF page.article # <<>> THEN page.article[1]
  ELSE IF page.main # <<>> THEN page.main[1]
  ELSE page.all

\* "\n".join([p.get_text() for p in paragraphs])
RawText(paragraphs) ==
  join(<<"\n">>, [i \in 1..Len(paragraphs) |-> paragraphs[i].text])

\* if not self.text: self.text = "Content could not be extracted."
ExtractText(page) ==
  LET text == RawText(Paragraphs(page))
  IN  IF text = <<>> THEN ContentPlaceholder ELSE text

\* the href values of p.find_all('a', href=True), over all paragraphs
RECURSIVE Hrefs(_)
Hrefs(paragraphs) ==
  IF paragraphs = <<>> THEN <<>>
  ELSE LET with_href == SelectSeq(Head(paragraphs).anchors, LAMBDA a : a # <<>>)
       IN  [i \in 1..Len(with_href) |-> with_href[i][1]] \o Hrefs(Tail(paragraphs))

\* the test of line 63 on one absolute URL
IsExternal(absolute_url, base_url_netloc) ==
  /\ urlparse(absolute_url).scheme \in {HTTP, HTTPS}
  /\ urlparse(absolute_url).netloc # base_url_netloc

\* the set `links` built by the loop of lines 56-64
ExternalLinks(url, paragraphs) ==
  LET base_url_netloc == urlparse(url).netloc
      hrefs == Hrefs(paragraphs)
  IN  {a \in {urljoin(url, hrefs[i]) : i \in 1..Len(hrefs)} :
         IsExternal(a, base_url_netloc)}

\* the fields of the Article after the try block ran to its end
Extracted(url, page) ==
  [kind |-> "Article",
   url |-> url,
   title |-> ExtractTitle(page),
   text |-> ExtractText(page),
   external_links_count |-> Cardinality(ExternalLinks(url, Paragraphs(page)))]

\* Article.__init__ before it calls fetch_content
NewArticle(url) ==
  [kind |-> "Article", url |-> url, title |-> <<>>, text |-> <<>>,
   external_links_count |-> 0]

\* requests.get raises a RequestException without touching the network
\* when the URL has no http/https scheme or no host (MissingSchema,
\* InvalidSchema, InvalidURL).
RequestsAcceptsUrl(url) ==
  urlparse(url).scheme \in {HTTP, HTTPS} /\ urlparse(url).netloc # <<>>

(***************************************************************************)
(* Analyzer.__init__                                                       *)
(***************************************************************************)
\* no Article object yet, and an object that is not an Article
NoArticle ==
  [kind |-> "none", url |-> <<>>, title |-> <<>>, text |-> <<>>,
   external_links_count |-> 0]

NotAnArticle ==
  [kind |-> "other", url |-> <<>>, title |-> <<>>, text |-> <<>>,
   external_links_count |-> 0]

NoBlob == [polarity |-> 0, subjectivity |-> 0, sentences |-> 0, cached |-> {}]

NoAnalyzer == [exists |-> FALSE, text |-> <<>>, blob |-> NoBlob]

\* the constructor's test with "or not article.text" left out
AnalyzerRejects_TypeOnly(obj) == obj.kind # "Article"

\* if not isinstance(article, Article) or not article.text: raise ValueError
AnalyzerRejects(obj) == obj.kind # "Article" \/ obj.text = <<>>

\* the Analyzer built on obj, whose TextBlob yields nlp
NewAnalyzer(obj, nlp) ==
  [exists |-> TRUE,
   text |-> obj.text,
   blob |-> [polarity |-> nlp.polarity, subjectivity |-> nlp.subjectivity,
             sentences |-> nlp.sentences, cached |-> {}]]

(***************************************************************************)
(* State                                                                   *)
(***************************************************************************)
VARIABLES
  pc,             \* position of the caller: input, fetch, retry, returned,
                  \* construct, analyze, done, crashed (idle: not running)
  caller,         \* "cli": CLI.run;  "direct": code that builds Article and
                  \* Analyzer itself, calling the analyzers as it likes
  url,            \* the string typed at the prompt / given to Article()
  article,        \* the Article object
  depth,          \* number of fetch_content frames on the call stack
  attempts,       \* number of requests.get calls made so far
  yes,            \* number of "y" answers given so far
  fetch_outcome,  \* how fetch_content ended: none, ok, declined, overflow
  analyzer,       \* the Analyzer object
  results,        \* last value returned by each analyzer (optional values)
  calls,          \* number of analyzer calls made
  console,        \* what was printed, as a sequence of message tags
  error,          \* the exception that ended the run, "" when none
  inp,            \* argument of the function applied (function-level runs)
  out             \* its value (optional)

vars ==
  <<pc, caller, url, article, depth, attempts, yes, fetch_outcome, analyzer,
    results, calls, console, error, inp, out>>

pipeline ==
  <<pc, caller, url, article, depth, attempts, yes, fetch_outcome, analyzer,
    results, calls, console, error>>

(***************************************************************************)
(* Bounds and inputs of the pipeline                                       *)
(***************************************************************************)
\* The interpreter's recursion limit, counted in fetch_content frames.
RecursionLimit == 3
\* Analyzer calls a direct caller makes.
MaxCalls == 3

A_CO == <<"a",".","c","o">>

UrlSchemes == {<<>>, HTTP, <<"H","T","T","P","S">>, FTP}
UrlSeps == {<<>>, <<":">>, <<":","/">>, <<":","/","/">>}
UrlHosts == {<<>>, A_CO}
UrlPaths == {<<>>, <<"/","n">>}

UrlInputs ==
  {s \o c \o h \o p : s \in UrlSchemes, c \in UrlSeps, h \in UrlHosts, p \in UrlPaths}

\* URLs a direct caller gives to Article(): one requests accepts, one not
DirectUrls == {HTTP \o <<":","/","/">> \o A_CO \o <<"/","n">>, A_CO}

\* answers typed at the retry prompt
Answers == {<<"y">>, <<"Y">>, <<"n">>, <<>>, <<"y","e","s">>}

NEWS == <<"N","e","w","s">>

PageTitles ==
  {<<>>, <<<<>>>>, <<NEWS>>, <<<<" ">> \o NEWS \o <<"\n">>>>,
   <<FailedToFetch>>, <<<<" ">> \o FailedToFetch>>}

EmptyPara == [text |-> <<>>, anchors |-> <<>>]

LawPara ==
  [text |-> <<"G","o","o","d"," ","l","a","w">>,
   anchors |-> <<<<<<"h","t","t","p",":","/","/","b",".","c","o">>>>, <<>>>>]

AiPara == [text |-> <<"a","i">>, anchors |-> <<<<<<"/","m">>>>>>]

\* paragraphs of the chosen container
ParaPool ==
  {<<>>, <<EmptyPara>>, <<EmptyPara, EmptyPara>>, <<LawPara>>, <<LawPara, AiPara>>}

RECURSIVE SeqsUpTo(_, _)
SeqsUpTo(S, n) ==
  IF n = 0 THEN {<<>>}
  ELSE LET shorter == SeqsUpTo(S, n - 1)
       IN  shorter \cup {Append(q, x) : q \in shorter, x \in S}

OutsidePara == [text |-> <<"b","a","d">>, anchors |-> <<>>]

Page(title, container, ps) ==
  [title |-> title,
   article |-> IF container \in {"article", "both"} THEN <<ps>> ELSE <<>>,
   main |-> IF container = "main" THEN <<ps>>
            ELSE IF container = "both" THEN <<<<OutsidePara>>>> ELSE <<>>,
   all |-> IF container = "none" THEN ps ELSE ps \o <<OutsidePara>>]

Pages ==
  {Page(t, c, ps) : t \in PageTitles, c \in {"article", "main", "both", "none"},
                    ps \in ParaPool}

\* what TextBlob yields for a text: polarity, subjectivity, sentences
NlpSamples ==
  {[polarity |-> SentDen, subjectivity |-> 0, sentences |-> MaxSentences],
   [polarity |-> -SentDen, subjectivity |-> SentDen, sentences |-> 1]}

NoResults == [topic |-> <<>>, sentiment |-> <<>>, bias |-> <<>>, credibility |-> <<>>]

NoFunction == inp = <<>> /\ out = <<>>

Init ==
  /\ pc = "input"
  /\ caller \in {"cli", "direct"}
  /\ url \in IF caller = "cli" THEN UrlInputs ELSE DirectUrls
  /\ article = NoArticle
  /\ depth = 0
  /\ attempts = 0
  /\ yes = 0
  /\ fetch_outcome = "none"
  /\ analyzer = NoAnalyzer
  /\ results = NoResults
  /\ calls = 0
  /\ console = <<>>
  /\ error = ""
  /\ NoFunction

(***************************************************************************)
(* CLI.run up to the Article, and a direct caller's Article(url)           *)
(***************************************************************************)
\* lines 283-285: if not is_valid_url(url): print(...); return
CliRejectUrl ==
  /\ pc = "input" /\ caller = "cli"
  /\ ~is_valid_url(url)
  /\ console' = Append(console, "Error: Please enter a valid URL")
  /\ pc' = "done"
  /\ UNCHANGED <<caller, url, article, depth, attempts, yes, fetch_outcome,
                 analyzer, results, calls, error, inp, out>>

\* line 287 / Article.__init__ up to its call of fetch_content
ConstructArticle ==
  /\ pc = "input"
  /\ caller = "cli" => is_valid_url(url)
  /\ article' = NewArticle(url)
  /\ depth' = 1
  /\ pc' = "fetch"
  /\ UNCHANGED <<caller, url, attempts, yes, fetch_outcome, analyzer, results,
                 calls, console, error, inp, out>>

(***************************************************************************)
(* Article.fetch_content                                                   *)
(***************************************************************************)
\* the try block runs to its end on some page; every frame then returns
FetchSucceed ==
  /\ pc = "fetch"
  /\ RequestsAcceptsUrl(article.url)
  /\ \E page \in Pages :
       /\ article' = Extracted(article.url, page)
       /\ console' = console
            \o <<"Fetching content">>
            \o (IF RawText(Paragraphs(page)) = <<>>
                  THEN <<"Warning: Could not extract paragraph text">> ELSE <<>>)
            \o <<"Fetching complete">>
  /\ attempts' = attempts + 1
  /\ fetch_outcome' = "ok"
  /\ depth' = 0
  /\ pc' = "returned"
  /\ UNCHANGED <<caller, url, yes, analyzer, results, calls, error, inp, out>>

\* requests.get or raise_for_status raises a RequestException: the handler
\* prints the error and prompts
FetchFail ==
  /\ pc = "fetch"
  /\ attempts' = attempts + 1
  /\ console' = console \o <<"Fetching content", "Error: Could not fetch the article">>
  /\ pc' = "retry"
  /\ UNCHANGED <<caller, url, article, depth, yes, fetch_outcome, analyzer,
                 results, calls, error, inp, out>>

\* lines 77-79: the answer lower-cased is "y": fetch_content calls itself
RetryAgain ==
  /\ pc = "retry"
  /\ depth < RecursionLimit
  /\ \E answer \in Answers : lower(answer) = <<"y">>
  /\ yes' = yes + 1
  /\ depth' = depth + 1
  /\ pc' = "fetch"
  /\ UNCHANGED <<caller, url, article, attempts, fetch_outcome, analyzer,
                 results, calls, console, error, inp, out>>

\* the same with the stack at the interpreter's limit: the call raises
\* RecursionError, which no frame of fetch_content handles
RetryOverflow ==
  /\ pc = "retry"
  /\ depth = RecursionLimit
  /\ \E answer \in Answers : lower(answer) = <<"y">>
  /\ yes' = yes + 1
  /\ fetch_outcome' = "overflow"
  /\ error' = "RecursionError"
  /\ depth' = 0
  /\ pc' = "crashed"
  /\ console' = IF caller = "cli"
                  THEN Append(console, "An unexpected error occurred")
                  ELSE console
  /\ UNCHANGED <<caller, url, article, attempts, analyzer, results, calls, inp, out>>

\* lines 80-82: any other answer
RetryDecline ==
  /\ pc = "retry"
  /\ \E answer \in Answers : lower(answer) # <<"y">>
  /\ article' = [article EXCEPT !.text = <<>>, !.title = FailedToFetch]
  /\ fetch_outcome' = "declined"
  /\ depth' = 0
  /\ pc' = "returned"
  /\ UNCHANGED <<caller, url, attempts, yes, analyzer, results, calls, console,
                 error, inp, out>>

(***************************************************************************)
(* CLI.run after the Article, Analyzer.__init__                            *)
(***************************************************************************)
\* line 289
CliCannotProceed(a) == a.text = <<>> \/ a.title = FailedToFetch

\* lines 289-291
CliAbort ==
  /\ pc = "returned" /\ caller = "cli"
  /\ CliCannotProceed(article)
  /\ console' = Append(console, "Analysis cannot proceed. Exiting.")
  /\ pc' = "done"
  /\ UNCHANGED <<caller, url, article, depth, attempts, yes, fetch_outcome,
                 analyzer, results, calls, error, inp, out>>

\* what the caller hands to Analyzer(...): CLI.run its article
AnalyzerArguments ==
  IF caller = "cli" THEN {article} ELSE {article, NotAnArticle}

\* Analyzer.__init__, lines 91-93
ConstructAnalyzer ==
  /\ pc = "returned"
  /\ caller = "cli" => ~CliCannotProceed(article)
  /\ \E obj \in AnalyzerArguments, nlp \in NlpSamples :
       /\ ~AnalyzerRejects(obj)
       /\ analyzer' = NewAnalyzer(obj, nlp)
  /\ pc' = "analyze"
  /\ UNCHANGED <<caller, url, article, depth, attempts, yes, fetch_outcome,
                 results, calls, console, error, inp, out>>

\* Analyzer.__init__, lines 89-90
AnalyzerRaise ==
  /\ pc = "returned"
  /\ caller = "cli" => ~CliCannotProceed(article)
  /\ \E obj \in AnalyzerArguments : AnalyzerRejects(obj)
  /\ error' = "ValueError"
  /\ pc' = "crashed"
  /\ console' = IF caller = "cli"
                  THEN Append(console, "An unexpected error occurred")
                  ELSE console
  /\ UNCHANGED <<caller, url, article, depth, attempts, yes, fetch_outcome,
                 analyzer, results, calls, inp, out>>

(***************************************************************************)
(* The four analyzers as called on the Analyzer object                     *)
(***************************************************************************)
\* CLI.run evaluates the dictionary of lines 297-302 in its written order;
\* a direct caller calls what it likes, MaxCalls times in all.
MayCall(name) ==
  /\ pc = "analyze"
  /\ caller = "direct" => calls < MaxCalls
  /\ caller = "cli" =>
       CASE name = "topic" -> results.topic = <<>>
         [] name = "sentiment" -> results.topic # <<>> /\ results.sentiment = <<>>
         [] name = "bias" -> results.sentiment # <<>> /\ results.bias = <<>>
         [] name = "credibility" -> results.bias # <<>> /\ results.credibility = <<>>

Called(name, value) ==
  /\ results' = [results EXCEPT ![name] = <<value>>]
  /\ calls' = calls + 1

\* blob.sentiment / blob.sentences are computed on first use and cached
BlobAfter(blob, properties) == [blob EXCEPT !.cached = @ \cup properties]

\* categorize_topic keeping its lower-cased text in self.text
CategorizeTopic_LowersText ==
  /\ MayCall("topic")
  /\ Called("topic", categorize_topic(analyzer.text))
  /\ analyzer' = [analyzer EXCEPT !.text = lower(@)]
  /\ UNCHANGED <<pc, caller, url, article, depth, attempts, yes, fetch_outcome,
                 console, error, inp, out>>

CategorizeTopic ==
  /\ MayCall("topic")
  /\ Called("topic", categorize_topic(analyzer.text))
  /\ UNCHANGED <<pc, caller, url, article, depth, attempts, yes, fetch_outcome,
                 analyzer, console, error, inp, out>>

AnalyzeSentiment ==
  /\ MayCall("sentiment")
  /\ Called("sentiment", analyze_sentiment(analyzer.blob))
  /\ analyzer' = [analyzer EXCEPT !.blob = BlobAfter(@, {"sentiment"})]
  /\ UNCHANGED <<pc, caller, url, article, depth, attempts, yes, fetch_outcome,
                 console, error, inp, out>>

DetectBias ==
  /\ MayCall("bias")
  /\ Called("bias", detect_bias(analyzer.text))
  /\ UNCHANGED <<pc, caller, url, article, depth, attempts, yes, fetch_outcome,
                 analyzer, console, error, inp, out>>

AnalyzeSourceCredibility ==
  /\ MayCall("credibility")
  /\ Called("credibility",
            analyze_source_credibility(analyzer.blob, article.external_links_count))
  /\ analyzer' = [analyzer EXCEPT !.blob = BlobAfter(@, {"sentiment", "sentences"})]
  /\ UNCHANGED <<pc, caller, url, article, depth, attempts, yes, fetch_outcome,
                 console, error, inp, out>>

\* lines 305-306: ReportGenerator(article, analysis_results).print_report()
CliReport ==
  /\ pc = "analyze" /\ caller = "cli"
  /\ \A name \in DOMAIN results : results[name] # <<>>
  /\ console' = Append(console, "MEDIA ANALYSIS REPORT")
  /\ pc' = "done"
  /\ UNCHANGED <<caller, url, article, depth, attempts, yes, fetch_outcome,
                 analyzer, results, calls, error, inp, out>>

Next ==
  \/ CliRejectUrl
  \/ ConstructArticle
  \/ FetchSucceed
  \/ FetchFail
  \/ RetryAgain
  \/ RetryOverflow
  \/ RetryDecline
  \/ CliAbort
  \/ ConstructAnalyzer
  \/ AnalyzerRaise
  \/ CategorizeTopic
  \/ AnalyzeSentiment
  \/ DetectBias
  \/ AnalyzeSourceCredibility
  \/ CliReport

Spec == Init /\ [][Next]_vars

(***************************************************************************)
(* Function-level runs: one of the program's functions applied to an       *)
(* argument drawn from a bounded set, outside any pipeline run.            *)
(***************************************************************************)
NoPipeline ==
  /\ pc = "idle"
  /\ caller = "none"
  /\ url = <<>>
  /\ article = NoArticle
  /\ depth = 0
  /\ attempts = 0
  /\ yes = 0
  /\ fetch_outcome = "none"
  /\ analyzer = NoAnalyzer
  /\ results = NoResults
  /\ calls = 0
  /\ console = <<>>
  /\ error = ""

\* the concatenations of at most n members of S
RECURSIVE Concats(_, _)
Concats(S, n) ==
  IF n = 0 THEN {<<>>}
  ELSE LET shorter == Concats(S, n - 1)
       IN  shorter \cup {q \o x : q \in shorter, x \in S}

\* ---- analyze_source_credibility --------------------------------------
CredibilityInputs ==
  [subjectivity : 0..SentDen, sentences : 0..MaxSentences, link_count : 0..MaxLinks]

BlobOf(i) ==
  [polarity |-> 0, subjectivity |-> i.subjectivity, sentences |-> i.sentences,
   cached |-> {}]

InitCredibility == NoPipeline /\ inp \in CredibilityInputs /\ out = <<>>

ApplyCredibility ==
  /\ out = <<>>
  /\ out' = <<analyze_source_credibility(BlobOf(inp), inp.link_count)>>
  /\ UNCHANGED <<pipeline, inp>>

SpecCredibility == InitCredibility /\ [][ApplyCredibility]_vars

\* ---- detect_bias ------------------------------------------------------
\* Fragments a body text is concatenated from.
MaxBiasFragments == 3
\* Longest run of leading lexicon entries a body text spells out.
MaxLadder == 17

BiasFragments ==
  {<<"g","o","o","d">>, <<"G","o","O","D">>, <<"g","o","o","d","n","e","s","s">>,
   <<"f","a","i","r">>, <<"o","f">>, <<"c","o","u","r","s","e">>,
   <<" ">>, <<"_">>}

BiasExample ==
  <<"s","h","o","c","k","i","n","g"," ","d","i","s","a","s","t","e","r"," ",
    "m","i","r","a","c","l","e">>

\* the first n lexicon entries, separated by blanks
Ladder(n) == join(<<" ">>, SubSeq(biased_words, 1, n))

BiasTexts ==
  (Concats(BiasFragments, MaxBiasFragments)
     \cup {Ladder(n) \o tail : n \in 1..MaxLadder, tail \in {<<>>, <<"s">>, <<".">>}}
     \cup {BiasExample}) \ {<<>>}

InitBias == NoPipeline /\ inp \in BiasTexts /\ out = <<>>

ApplyDetectBias ==
  /\ out = <<>>
  /\ out' = <<detect_bias(inp)>>
  /\ UNCHANGED <<pipeline, inp>>

SpecBias == InitBias /\ [][ApplyDetectBias]_vars

\* ---- categorize_topic -------------------------------------------------
MaxTopicFragments == 3

TopicFragments ==
  {<<"a","i">>, <<"A","I">>, <<"l","a","w">>, <<"t","e","s","t">>, <<"e","s","t">>,
   <<"b","o","o","t">>, <<"c","a","m","p">>, <<"g","o","a","l">>, <<"x">>, <<" ">>}

TopicExample ==
  <<"T","h","e"," ","g","o","v","e","r","n","m","e","n","t"," ","p","a","s","s","e","d"," ",
    "a"," ","n","e","w"," ","e","l","e","c","t","i","o","n"," ","l","a","w",".">>

TopicTexts == (Concats(TopicFragments, MaxTopicFragments) \cup {TopicExample}) \ {<<>>}

InitTopic == NoPipeline /\ inp \in TopicTexts /\ out = <<>>

ApplyCategorizeTopic ==
  /\ out = <<>>
  /\ out' = <<categorize_topic(inp)>>
  /\ UNCHANGED <<pipeline, inp>>

SpecTopic == InitTopic /\ [][ApplyCategorizeTopic]_vars

\* ---- the extraction of fetch_content ----------------------------------
\* Anchors in a paragraph, and paragraphs in the chosen container.
MaxAnchors == 1
MaxExtractParas == 2

B_CO == <<"b",".","c","o">>

ExtractUrls ==
  {HTTP \o <<":","/","/">> \o A_CO \o <<"/","n">>,
   HTTPS \o <<":","/","/">> \o A_CO}

HrefPool ==
  {<<>>,
   <<"/","m">>,
   <<"#","t">>,
   <<"m">>,
   HTTP \o <<":","/","/">> \o A_CO \o <<"/","m">>,
   HTTP \o <<":","/","/">> \o <<"A",".","C","O">> \o <<"/","m">>,
   HTTP \o <<":","/","/">> \o B_CO \o <<"/","m">>,
   HTTP \o <<":","/","/">> \o B_CO \o <<"/","k">>,
   <<"/","/">> \o B_CO \o <<"/","m">>,
   <<"m","a","i","l","t","o",":","x">>}

AnchorPool == {<<>>} \cup {<<h>> : h \in HrefPool}

ExtractParaPool ==
  {[text |-> t, anchors |-> a] :
     t \in {<<>>, <<"a","i">>}, a \in SeqsUpTo(AnchorPool, MaxAnchors)}

ExtractPages ==
  {Page(<<NEWS>>, c, ps) :
     c \in {"article", "main", "none"},
     ps \in SeqsUpTo(ExtractParaPool, MaxExtractParas)}

InitExtract ==
  /\ NoPipeline
  /\ inp \in [url : ExtractUrls, page : ExtractPages]
  /\ out = <<>>

ApplyExtract ==
  /\ out = <<>>
  /\ out' = <<Extracted(inp.url, inp.page)>>
  /\ UNCHANGED <<pipeline, inp>>

SpecExtract == InitExtract /\ [][ApplyExtract]_vars

(***************************************************************************)
(* Properties                                                              *)
(***************************************************************************)
Reported == \E k \in DOMAIN console : console[k] = "MEDIA ANALYSIS REPORT"

SaidCannotProceed ==
  \E k \in DOMAIN console : console[k] = "Analysis cannot proceed. Exiting."

AnyResult == \E name \in DOMAIN results : results[name] # <<>>

\* C1: no analyzer ever runs on a document with an empty body.  An Analyzer
\* that exists holds a non-empty text, and results come only from an
\* existing Analyzer.  Once a fetch failed and the retry was declined the
\* document has title "Failed to Fetch" and an empty body, no Analyzer
\* exists and no report is printed: CLI.run is at its check or has returned,
\* and a caller that hands the document to Analyzer(...) itself gets the
\* ValueError instead of an analyzer.
C1_NoAnalysisOnEmptyBody ==
  /\ analyzer.exists => analyzer.text # <<>> /\ article.text # <<>>
  /\ AnyResult => analyzer.exists
  /\ fetch_outcome = "declined" =>
       /\ article.title = FailedToFetch
       /\ article.text = <<>>
       /\ ~analyzer.exists
       /\ ~AnyResult
       /\ ~Reported
       /\ caller = "cli" => pc \in {"returned", "done"}
       /\ caller = "direct" => pc = "returned" \/ (pc = "crashed" /\ error = "ValueError")

\* CLI.run has returned after a declined retry, having said that analysis
\* cannot proceed.
C1_Witness ==
  /\ caller = "cli"
  /\ pc = "done"
  /\ fetch_outcome = "declined"
  /\ attempts >= 2
  /\ SaidCannotProceed

\* C2: fetch_content always ends with a fetched document or with the
\* "Failed to Fetch" sentinel, after a bounded number of attempts.
C2_FetchEndsWithDocumentOrSentinel ==
  pc \in {"returned", "analyze", "done", "crashed"} /\ article.kind = "Article" =>
    \/ fetch_outcome = "ok" /\ article.text # <<>>
    \/ fetch_outcome = "declined" /\ article.title = FailedToFetch /\ article.text = <<>>

C4_CredibilityScore ==
  out # <<>> =>
    LET r == out[1]
        penalty == IF inp.sentences < 8 THEN 25 * SentDen ELSE 0
        bonus == (IF 3 * inp.link_count < 30 THEN 3 * inp.link_count ELSE 30) * SentDen
        raw == (SentDen - inp.subjectivity) * 100 - penalty + bonus
        clamped == IF raw < 0 THEN 0 ELSE IF raw > 100 * SentDen THEN 100 * SentDen ELSE raw
    IN  /\ r.score = clamped
        /\ r.score >= 0 /\ r.score <= 100 * SentDen
        /\ r.assessment = "Appears highly credible" <=> r.score > 80 * SentDen
        /\ r.assessment = "Appears credible" <=>
             (r.score > 60 * SentDen /\ r.score <= 80 * SentDen)
        /\ r.assessment = "Moderate credibility" <=>
             (r.score > 40 * SentDen /\ r.score <= 60 * SentDen)
        /\ r.assessment = "Low credibility (review with caution)" <=>
             r.score <= 40 * SentDen
        /\ (inp.subjectivity = SentDen /\ inp.sentences = 1 /\ inp.link_count = 0)
             => r.score = 0
        /\ (inp.subjectivity = 0 /\ inp.sentences = 20 /\ inp.link_count = 100)
             => r.score = 100 * SentDen
        /\ (10 * inp.subjectivity = 4 * SentDen /\ inp.sentences = 10
              /\ inp.link_count = 4)
             => (r.score = 72 * SentDen /\ r.assessment = "Appears credible"
                 /\ r.formatted = 7200)

\* The scorer has run on subjectivity 0.4, 10 sentences and 4 links.
C4_Witness ==
  /\ out # <<>>
  /\ 10 * inp.subjectivity = 4 * SentDen
  /\ inp.sentences = 10
  /\ inp.link_count = 4
  /\ out[1].assessment = "Appears credible"

\* A lexicon entry occurs in the text as a whole word: some occurrence of
\* it, letters compared without regard to case, has no word character
\* right before it and none right after it.
WholeWordOccurs(word, text) ==
  \E i \in 1..(Len(text) - Len(word) + 1) :
    /\ \A k \in 1..Len(word) : ToLower(text[i + k - 1]) = ToLower(word[k])
    /\ (i = 1 \/ ~IsWordChar(text[i - 1]))
    /\ (i + Len(word) > Len(text) \/ ~IsWordChar(text[i + Len(word)]))

LexiconEntries == Range(biased_words)

\* lexicon entries appended to a text to add one more distinct word
FurtherWords ==
  {<<"g","o","o","d">>, <<"w","r","o","n","g">>, <<"s","o","-","c","a","l","l","e","d">>}

\* C5: detect_bias returns as score the number of distinct lexicon entries
\* that occur in the body as a whole word, letters compared without regard
\* to case, however often each occurs; an entry that occurs only inside a
\* larger word does not count; the score does not decrease when a further
\* lexicon word is added to the body, and grows by one when that word was
\* not matched before; the assessment is "High potential for bias" iff
\* score > 15, "Moderate potential for bias" iff 7 < score <= 15, "Low
\* potential for bias" iff 0 < score <= 7, "Appears to be objective" iff
\* score = 0.  A body with exactly "shocking", "disaster", "miracle" gives
\* score 3 and "Low potential for bias".
C5_BiasScore ==
  out # <<>> =>
    LET r == out[1]
        present == {w \in LexiconEntries : WholeWordOccurs(w, inp)}
    IN  /\ r.score = Cardinality(present)
        /\ r.words = present
        /\ r.assessment = "High potential for bias" <=> r.score > 15
        /\ r.assessment = "Moderate potential for bias" <=>
             (r.score > 7 /\ r.score <= 15)
        /\ r.assessment = "Low potential for bias" <=> (r.score > 0 /\ r.score <= 7)
        /\ r.assessment = "Appears to be objective" <=> r.score = 0
        /\ \A w \in FurtherWords :
             LET more == detect_bias(inp \o <<" ">> \o w).score
             IN  /\ more >= r.score
                 /\ w \notin r.words => more = r.score + 1
        /\ inp = BiasExample =>
             (r.score = 3 /\ r.assessment = "Low potential for bias")

\* detect_bias has run on a body in which "good" occurs only inside larger
\* words and another entry occurs as a whole word.
C5_Witness ==
  /\ out # <<>>
  /\ \E i \in 1..Len(inp) : StartsAtIgnoreCase(inp, <<"g","o","o","d">>, i)
  /\ <<"g","o","o","d">> \notin out[1].words
  /\ out[1].score = 1

\* occurrences of sub in s, every start position counted
OccurrenceCount(s, sub) == Cardinality({i \in 1..Len(s) : StartsAt(s, sub, i)})

\* occurrences of sub in s, no two of the counted ones overlapping: the
\* largest number of start positions pairwise at least Len(sub) apart
NonOverlappingCount(s, sub) ==
  LET starts == {i \in 1..Len(s) : StartsAt(s, sub, i)}
      apart(P) == \A p \in P, q \in P : p < q => q - p >= Len(sub)
      sizes == {Cardinality(P) : P \in {Q \in SUBSET starts : apart(Q)}}
  IN  CHOOSE n \in sizes : \A m \in sizes : m <= n

\* the total of a count over a category's keywords
RECURSIVE OccurrenceTotal(_, _)
OccurrenceTotal(s, kws) ==
  IF kws = <<>> THEN 0
  ELSE OccurrenceCount(s, Head(kws)) + OccurrenceTotal(s, Tail(kws))

RECURSIVE NonOverlappingTotal(_, _)
NonOverlappingTotal(s, kws) ==
  IF kws = <<>> THEN 0
  ELSE NonOverlappingCount(s, Head(kws)) + NonOverlappingTotal(s, Tail(kws))

\* the category the claim names for per-category scores sc: "Uncategorized"
\* when all are zero, else the first category in declared order among
\* those with the largest score
SelectedTopic(sc) ==
  IF \A t \in DOMAIN sc : sc[t] = 0 THEN "Uncategorized"
  ELSE TopicNames[CHOOSE t \in DOMAIN sc :
                    /\ \A u \in DOMAIN sc : sc[u] <= sc[t]
                    /\ \A u \in DOMAIN sc : u < t => sc[u] < sc[t]]

DeclaredOrder ==
  TopicNames = <<"Technology", "Politics", "Sports", "Business", "Health",
                 "Entertainment", "Education">>

\* C6 as stated: each category's score is the sum over its keywords of the
\* number of case-insensitive substring occurrences in the body; the result
\* is the first category in declared order among those with the largest
\* score, and "Uncategorized" iff every category scores zero.
C6_TopicByOccurrences ==
  out # <<>> =>
    LET sc == [t \in 1..Len(topics) |-> OccurrenceTotal(lower(inp), topics[t])]
    IN  /\ DeclaredOrder
        /\ out[1] = SelectedTopic(sc)
        /\ out[1] = "Uncategorized" <=> \A t \in DOMAIN sc : sc[t] = 0

\* C6 amended: the same with each keyword's occurrences counted without
\* overlap (an occurrence that starts inside the previous counted one is not
\* counted).  The body "The government passed a new election law." gives
\* "Politics".
C6_TopicByNonOverlappingOccurrences ==
  out # <<>> =>
    LET sc == [t \in 1..Len(topics) |-> NonOverlappingTotal(lower(inp), topics[t])]
    IN  /\ DeclaredOrder
        /\ out[1] = SelectedTopic(sc)
        /\ out[1] = "Uncategorized" <=> \A t \in DOMAIN sc : sc[t] = 0
        /\ inp = TopicExample => out[1] = "Politics"

\* categorize_topic has run on a body in which two categories tie at the
\* largest score and has returned the one declared first.
C6_Witness ==
  /\ out # <<>>
  /\ LET sc == TopicScores(inp)
     IN  /\ sc[1] = 1 /\ sc[2] = 1
         /\ \A t \in DOMAIN sc : sc[t] <= 1
  /\ \E i \in 1..Len(inp) : StartsAt(inp, <<"l","a","w">>, i) /\ i = 1
  /\ out[1] = "Technology"

\* the domain a URL names: the host of its netloc, letters of any case
DomainOf(u) == lower(urlparse(u).netloc)

\* C7: externalLinkCount is the number of distinct absolute URLs, obtained
\* from the anchors inside the collected paragraphs, whose scheme is
\* http/https and whose domain differs from the article's domain; every
\* link back to the article's own domain is excluded.
C7_ExternalLinkCount ==
  out # <<>> =>
    LET hrefs == Hrefs(Paragraphs(inp.page))
        absolute == {urljoin(inp.url, hrefs[i]) : i \in 1..Len(hrefs)}
        external == {a \in absolute :
                       /\ urlparse(a).scheme \in {HTTP, HTTPS}
                       /\ DomainOf(a) # DomainOf(inp.url)}
    IN  out[1].external_links_count = Cardinality(external)

\* C9: after a successful fetch in which the chosen container has no
\* paragraph or every collected paragraph has empty text, body is the
\* placeholder "Content could not be extracted."; body is never empty after
\* a successful fetch.
C9_PlaceholderWhenNoParagraphText ==
  out # <<>> =>
    /\ (\A i \in DOMAIN Paragraphs(inp.page) : Paragraphs(inp.page)[i].text = <<>>)
         => out[1].text = ContentPlaceholder
    /\ out[1].text # <<>>

\* C10: a run of CLI.run prints a report if and only if the URL is valid and
\* some fetch attempt succeeded, and says "Analysis cannot proceed" only
\* when a fetch failed and the retry was declined.
C10_ReportIffFetched ==
  caller = "cli" /\ pc = "done" =>
    /\ Reported <=> (is_valid_url(url) /\ fetch_outcome = "ok")
    /\ SaidCannotProceed => fetch_outcome = "declined"

\* what a freshly constructed Analyzer on the same article holds
Fresh(an) == [an EXCEPT !.blob.cached = {}]

\* what the analyzer of that name returns when it is the only one called
Alone(name, art, an) ==
  CASE name = "topic" -> categorize_topic(art.text)
    [] name = "sentiment" -> analyze_sentiment(an.blob)
    [] name = "bias" -> detect_bias(art.text)
    [] name = "credibility" ->
         analyze_source_credibility(an.blob, art.external_links_count)

\* C8: whatever the order and repetition of the analyzer calls, every call
\* leaves the document's url, title, body and externalLinkCount unchanged,
\* leaves the Analyzer as constructed but for what TextBlob has cached, and
\* every analyzer's latest result is the one it returns when called alone
\* on the freshly constructed Analyzer.
C8_AnalyzersIndependent ==
  [][analyzer.exists =>
       /\ article' = article
       /\ Fresh(analyzer') = Fresh(analyzer)
       /\ analyzer.text = article.text
       /\ \A name \in DOMAIN results :
            results'[name] # <<>> =>
              results'[name][1] = Alone(name, article, Fresh(analyzer))]_vars

\* A direct caller has called credibility and bias, one of them twice,
\* and topic not at all.
C8_Witness ==
  /\ caller = "direct"
  /\ calls = 3
  /\ results.topic = <<>>
  /\ results.sentiment = <<>>
  /\ results.bias # <<>>
  /\ results.credibility # <<>>
  /\ analyzer.blob.cached = {"sentiment", "sentences"}

=============================================================================
